---- MODULE Spec2Model ----
(***************************************************************************)
(* Unified search: SearchEngine.execute (engines/base.ts) run for every    *)
(* selected engine under Promise.all, followed by                          *)
(* SearchAggregator.aggregate (aggregator.ts).                             *)
(*                                                                         *)
(* A JavaScript string is a sequence of one-character strings; a code      *)
(* point outside ASCII is written by its name ("U+4E2D").  An optional     *)
(* field (error, publishedDate, score) is a record [defined, value].       *)
(***************************************************************************)
EXTENDS Integers, Sequences, FiniteSets, TLC

(***************************************************************************)
(* Bounds of the model.                                                    *)
(***************************************************************************)
\* Raw results returned by all provider calls of one search, altogether.
MaxHits == 2
\* Engines selected for one search.
MaxEngines == 2
\* Milliseconds the clock (Date.now) advances during one search.
MaxClock == 1

(***************************************************************************)
(* Strings.                                                                *)
(***************************************************************************)
UpperCase == <<"A","B","C","D","E","F","G","H","I","J","K","L","M",
               "N","O","P","Q","R","S","T","U","V","W","X","Y","Z">>
LowerCase == <<"a","b","c","d","e","f","g","h","i","j","k","l","m",
               "n","o","p","q","r","s","t","u","v","w","x","y","z">>
Digit == <<"0","1","2","3","4","5","6","7","8","9">>

Range(s) == {s[i] : i \in DOMAIN s}

\* String.prototype.toLowerCase, one character.
LowerChar(c) ==
    IF \E i \in DOMAIN UpperCase : UpperCase[i] = c
    THEN LowerCase[CHOOSE i \in DOMAIN UpperCase : UpperCase[i] = c]
    ELSE c

\* String.prototype.toLowerCase
toLowerCase(s) == [i \in DOMAIN s |-> LowerChar(s[i])]

\* s.startsWith(sub, at): sub occurs in s at (1-based) position at.
OccursAt(s, sub, at) ==
    /\ at >= 1
    /\ at + Len(sub) - 1 <= Len(s)
    /\ \A k \in 1..Len(sub) : s[at + k - 1] = sub[k]

\* String.prototype.includes
includes(s, sub) == \E at \in 1..(Len(s) + 1) : OccursAt(s, sub, at)

\* String.prototype.indexOf, 1-based; 0 when sub does not occur.
indexOf(s, sub) ==
    IF includes(s, sub)
    THEN CHOOSE at \in 1..(Len(s) + 1) :
            /\ OccursAt(s, sub, at)
            /\ \A b \in 1..(at - 1) : ~OccursAt(s, sub, b)
    ELSE 0

\* s.split(sep).length for a one-character separator: occurrences of sep, plus 1.
splitLength(s, sep) == Cardinality({i \in DOMAIN s : s[i] = sep}) + 1

\* Number to decimal text, as a template literal renders a non-negative integer.
RECURSIVE NumberToString(_)
NumberToString(n) ==
    IF n < 10 THEN <<Digit[n + 1]>>
    ELSE NumberToString(n \div 10) \o <<Digit[(n % 10) + 1]>>

(***************************************************************************)
(* Optional values and JavaScript truthiness.                              *)
(***************************************************************************)
UndefinedText == [defined |-> FALSE, value |-> <<>>]
UndefinedNumber == [defined |-> FALSE, value |-> 0]
Some(v) == [defined |-> TRUE, value |-> v]

\* Truthiness of an optional string: undefined and '' are falsy.
TruthyText(o) == o.defined /\ o.value # <<>>
\* Truthiness of an optional number: undefined and 0 are falsy.
TruthyNumber(o) == o.defined /\ o.value # 0

(***************************************************************************)
(* SearchAggregator (aggregator.ts).                                       *)
(***************************************************************************)
Min(a, b) == IF a <= b THEN a ELSE b
Max(a, b) == IF a >= b THEN a ELSE b

\* Position of the first character of s that is in cs; Len(s) + 1 when none is.
FirstOf(s, cs) ==
    IF \E i \in DOMAIN s : s[i] \in cs
    THEN CHOOSE i \in DOMAIN s : s[i] \in cs /\ \A j \in 1..(i - 1) : s[j] \notin cs
    ELSE Len(s) + 1

SchemeSeparator == <<":", "/", "/">>

\* new URL(url) for the absolute forms scheme://host[/path][?query][#fragment]
\* (no userinfo, port, dot segments or percent escapes): ok is FALSE where the
\* constructor throws, else hostname and pathname are the parsed fields.
ParseURL(url) ==
    LET p == indexOf(url, SchemeSeparator)
        scheme == SubSeq(url, 1, p - 1)
        rest == SubSeq(url, p + 3, Len(url))
        hostEnd == FirstOf(rest, {"/", "?", "#"})
        host == SubSeq(rest, 1, hostEnd - 1)
        afterHost == SubSeq(rest, hostEnd, Len(rest))
        path == SubSeq(afterHost, 1, FirstOf(afterHost, {"?", "#"}) - 1)
    IN  IF /\ p > 1
           /\ \A i \in DOMAIN scheme : LowerChar(scheme[i]) \in Range(LowerCase)
           /\ host # <<>>
        THEN [ok |-> TRUE,
              hostname |-> toLowerCase(host),
              pathname |-> IF path = <<>> THEN <<"/">> ELSE path]
        ELSE [ok |-> FALSE, hostname |-> <<>>, pathname |-> <<>>]

WwwPrefix == <<"w", "w", "w", ".">>

\* s.replace(/^www\./, '')
StripWww(s) ==
    IF OccursAt(s, WwwPrefix, 1) THEN SubSeq(s, Len(WwwPrefix) + 1, Len(s)) ELSE s

\* s.replace(/\/$/, '')
StripTrailingSlash(s) ==
    IF Len(s) > 0 /\ s[Len(s)] = "/" THEN SubSeq(s, 1, Len(s) - 1) ELSE s

normalizeUrl(url) ==
    LET parsed == ParseURL(url)
    IN  IF parsed.ok
        THEN toLowerCase(StripTrailingSlash(StripWww(parsed.hostname) \o parsed.pathname))
        ELSE toLowerCase(url)

\* Math.max(a.score || 0, b.score || 0)
ScoreOrZero(o) == IF TruthyNumber(o) THEN o.value ELSE 0

\* mergeResults that keeps the title and the snippet of the later result.
mergeResultsKeepingLatter(a, b) ==
    [title |-> b.title,
     url |-> a.url,
     snippet |-> b.snippet,
     source |-> a.source \o <<"+">> \o b.source,
     publishedDate |-> IF TruthyText(a.publishedDate) THEN a.publishedDate
                       ELSE b.publishedDate,
     score |-> Some(Max(ScoreOrZero(a.score), ScoreOrZero(b.score)))]

\* mergeResults that takes the url and the publishedDate of the later result.
mergeResultsOfLatterOrigin(a, b) ==
    [title |-> IF Len(a.title) >= Len(b.title) THEN a.title ELSE b.title,
     url |-> b.url,
     snippet |-> IF Len(a.snippet) >= Len(b.snippet) THEN a.snippet ELSE b.snippet,
     source |-> a.source \o <<"+">> \o b.source,
     publishedDate |-> IF TruthyText(b.publishedDate) THEN b.publishedDate
                       ELSE a.publishedDate,
     score |-> Some(Max(ScoreOrZero(a.score), ScoreOrZero(b.score)))]

\* mergeResults that writes the normalized URL into the merged result.
mergeResultsWithNormalizedUrl(a, b) ==
    [title |-> IF Len(a.title) >= Len(b.title) THEN a.title ELSE b.title,
     url |-> normalizeUrl(a.url),
     snippet |-> IF Len(a.snippet) >= Len(b.snippet) THEN a.snippet ELSE b.snippet,
     source |-> a.source \o <<"+">> \o b.source,
     publishedDate |-> IF TruthyText(a.publishedDate) THEN a.publishedDate
                       ELSE b.publishedDate,
     score |-> Some(Max(ScoreOrZero(a.score), ScoreOrZero(b.score)))]

mergeResults(a, b) ==
    [title |-> IF Len(a.title) >= Len(b.title) THEN a.title ELSE b.title,
     url |-> a.url,
     snippet |-> IF Len(a.snippet) >= Len(b.snippet) THEN a.snippet ELSE b.snippet,
     source |-> a.source \o <<"+">> \o b.source,
     publishedDate |-> IF TruthyText(a.publishedDate) THEN a.publishedDate
                       ELSE b.publishedDate,
     score |-> Some(Max(ScoreOrZero(a.score), ScoreOrZero(b.score)))]

\* The Map of deduplicateByUrl as the sequence of its entries in insertion order;
\* Map.set on a key the map has keeps the entry's place.
MapHas(seen, key) == \E i \in DOMAIN seen : seen[i].key = key
MapIndex(seen, key) == CHOOSE i \in DOMAIN seen : seen[i].key = key
MapSet(seen, key, value) ==
    IF MapHas(seen, key)
    THEN [seen EXCEPT ![MapIndex(seen, key)] = [key |-> key, value |-> value]]
    ELSE Append(seen, [key |-> key, value |-> value])

\* DedupStep with the lower-cased URL, not the normalized one, as the key.
DedupStepByRawUrl(seen, result) ==
    LET key == toLowerCase(result.url)
    IN  IF ~MapHas(seen, key)
        THEN MapSet(seen, key, result)
        ELSE MapSet(seen, key, mergeResults(seen[MapIndex(seen, key)].value, result))

\* DedupStep that puts a new normalized URL in front of the ones seen before.
DedupStepNewestFirst(seen, result) ==
    LET normalizedUrl == normalizeUrl(result.url)
    IN  IF ~MapHas(seen, normalizedUrl)
        THEN <<[key |-> normalizedUrl, value |-> result]>> \o seen
        ELSE MapSet(seen, normalizedUrl,
                    mergeResults(seen[MapIndex(seen, normalizedUrl)].value, result))

\* DedupStep that drops a result whose URL does not parse.
DedupStepOfParsedOnly(seen, result) ==
    LET normalizedUrl == normalizeUrl(result.url)
    IN  IF ~ParseURL(result.url).ok THEN seen
        ELSE IF ~MapHas(seen, normalizedUrl)
        THEN MapSet(seen, normalizedUrl, result)
        ELSE MapSet(seen, normalizedUrl,
                    mergeResults(seen[MapIndex(seen, normalizedUrl)].value, result))

\* One iteration of the loop of deduplicateByUrl.
DedupStep(seen, result) ==
    LET normalizedUrl == normalizeUrl(result.url)
    IN  IF ~MapHas(seen, normalizedUrl)
        THEN MapSet(seen, normalizedUrl, result)
        ELSE MapSet(seen, normalizedUrl,
                    mergeResults(seen[MapIndex(seen, normalizedUrl)].value, result))

RECURSIVE DedupLoop(_, _, _)
DedupLoop(seen, results, i) ==
    IF i > Len(results) THEN seen
    ELSE DedupLoop(DedupStep(seen, results[i]), results, i + 1)

deduplicateByUrl(results) ==
    LET seen == DedupLoop(<<>>, results, 1)
    IN  [i \in DOMAIN seen |-> seen[i].value]

\* The classes \w, \s and U+4E00..U+9FFF of the regular expression of tokenize.
WordChars == Range(UpperCase) \cup Range(LowerCase) \cup Range(Digit) \cup {"_"}
Whitespace == {" ", "\t", "\n"}
CJK == {"U+4E2D", "U+6587"}

\* text.split(/\s+/): the maximal runs of characters that are not whitespace, in
\* order, with an empty piece in front when the text starts with whitespace (or is
\* empty) and one at the end when it ends with whitespace.
split(s) ==
    LET starts == {i \in DOMAIN s :
                      s[i] \notin Whitespace /\ (i = 1 \/ s[i - 1] \in Whitespace)}
        start(k) == CHOOSE i \in starts : Cardinality({j \in starts : j < i}) = k - 1
        run(i) == SubSeq(s, i, i + FirstOf(SubSeq(s, i, Len(s)), Whitespace) - 2)
        runs == [k \in 1..Cardinality(starts) |-> run(start(k))]
    IN  (IF s = <<>> \/ s[1] \in Whitespace THEN <<(<<>>)>> ELSE <<>>)
        \o runs
        \o (IF s # <<>> /\ s[Len(s)] \in Whitespace THEN <<(<<>>)>> ELSE <<>>)

tokenize(text) ==
    LET lower == toLowerCase(text)
        replaced == [i \in DOMAIN lower |->
                        IF lower[i] \in WordChars \cup Whitespace \cup CJK
                        THEN lower[i] ELSE " "]
        pieces == split(replaced)
    IN  SelectSeq(pieces, LAMBDA t : Len(t) > 1)

TitleTermWeight == 10
SnippetTermWeight == 3
ExactTitleBonus == 20
MultiSourceBonus == 15
ScoreWeight == 5
DateBonus == 3
LongSnippetBonus == 5
LongSnippetLength == 100

\* The loop over queryTerms in calculateRelevance, from term i on.
RECURSIVE TermScore(_, _, _, _)
TermScore(queryTerms, titleTerms, snippetTerms, i) ==
    IF i > Len(queryTerms) THEN 0
    ELSE (IF queryTerms[i] \in Range(titleTerms) THEN TitleTermWeight ELSE 0)
         + (IF queryTerms[i] \in Range(snippetTerms) THEN SnippetTermWeight ELSE 0)
         + TermScore(queryTerms, titleTerms, snippetTerms, i + 1)

\* The multi-source term of calculateRelevance.
SourceBonus(source) ==
    IF includes(source, <<"+">>)
    THEN MultiSourceBonus * (splitLength(source, "+") - 1)
    ELSE 0

\* The body of results.map in calculateRelevance: the score of one result.
RelevanceOf(result, query) ==
    TermScore(tokenize(query), tokenize(result.title), tokenize(result.snippet), 1)
    + (IF includes(toLowerCase(result.title), toLowerCase(query))
       THEN ExactTitleBonus ELSE 0)
    + SourceBonus(result.source)
    + (IF TruthyNumber(result.score) THEN result.score.value * ScoreWeight ELSE 0)
    + (IF TruthyText(result.publishedDate) THEN DateBonus ELSE 0)
    + (IF Len(result.snippet) > LongSnippetLength THEN LongSnippetBonus ELSE 0)

calculateRelevance(results, query) ==
    [i \in DOMAIN results |->
        [title |-> results[i].title,
         url |-> results[i].url,
         snippet |-> results[i].snippet,
         source |-> results[i].source,
         publishedDate |-> results[i].publishedDate,
         score |-> results[i].score,
         relevanceScore |-> RelevanceOf(results[i], query)]]

\* The comparator of the sort in aggregate; relevanceScore || 0 is the score.
Compare(a, b) == b.relevanceScore - a.relevanceScore

\* SortInsert that puts r before the elements that compare equal to it.
SortInsertBeforeEqual(sorted, r) ==
    LET at == IF \E i \in DOMAIN sorted : Compare(r, sorted[i]) <= 0
              THEN CHOOSE i \in DOMAIN sorted :
                      /\ Compare(r, sorted[i]) <= 0
                      /\ \A j \in 1..(i - 1) : ~(Compare(r, sorted[j]) <= 0)
              ELSE Len(sorted) + 1
    IN  SubSeq(sorted, 1, at - 1) \o <<r>> \o SubSeq(sorted, at, Len(sorted))

\* Array.prototype.sort, which is stable: r goes before the first element that
\* the comparator orders after it.
SortInsert(sorted, r) ==
    LET at == IF \E i \in DOMAIN sorted : Compare(r, sorted[i]) < 0
              THEN CHOOSE i \in DOMAIN sorted :
                      /\ Compare(r, sorted[i]) < 0
                      /\ \A j \in 1..(i - 1) : ~(Compare(r, sorted[j]) < 0)
              ELSE Len(sorted) + 1
    IN  SubSeq(sorted, 1, at - 1) \o <<r>> \o SubSeq(sorted, at, Len(sorted))

RECURSIVE SortLoop(_, _, _)
SortLoop(sorted, results, i) ==
    IF i > Len(results) THEN sorted
    ELSE SortLoop(SortInsert(sorted, results[i]), results, i + 1)

sort(results) == SortLoop(<<>>, results, 1)

\* slice that keeps one element too many.
sliceOneMore(s, end) == SubSeq(s, 1, Min(end + 1, Len(s)))

\* slice that stops one element early.
sliceOneLess(s, end) == SubSeq(s, 1, Min(end, Len(s)) - 1)

\* Array.prototype.slice(0, end)
slice(s, end) ==
    LET to == IF end < 0 THEN Max(Len(s) + end, 0) ELSE Min(end, Len(s))
    IN  SubSeq(s, 1, to)

TimeoutWord == <<"T", "i", "m", "e", "o", "u", "t">>

\* StatusOf that knows the text of the executor's own timeout only.
StatusOfExecutorTimeout(error) ==
    IF TruthyText(error)
    THEN (IF OccursAt(error.value, TimeoutWord \o <<" ", "a", "f", "t", "e", "r", " ">>, 1) THEN "timeout" ELSE "error")
    ELSE "success"

\* The status of one entry of engineStats.
StatusOf(error) ==
    IF TruthyText(error)
    THEN (IF includes(error.value, TimeoutWord) THEN "timeout" ELSE "error")
    ELSE "success"

\* engineStats that lists only the responses that have results.
engineStatsOfContributors(responses) ==
    LET contributing == SelectSeq(responses, LAMBDA r : r.results # <<>>)
    IN  [i \in DOMAIN contributing |->
            [name |-> contributing[i].engine,
             count |-> Len(contributing[i].results),
             latency |-> contributing[i].latency,
             status |-> StatusOf(contributing[i].error),
             error |-> contributing[i].error]]

engineStats(responses) ==
    [i \in DOMAIN responses |->
        [name |-> responses[i].engine,
         count |-> Len(responses[i].results),
         latency |-> responses[i].latency,
         status |-> StatusOf(responses[i].error),
         error |-> responses[i].error]]

\* allResults after the loop that pushes every response's results.
RECURSIVE allResults(_, _)
allResults(responses, i) ==
    IF i > Len(responses) THEN <<>>
    ELSE responses[i].results \o allResults(responses, i + 1)

uniqueResults(responses) == deduplicateByUrl(allResults(responses, 1))

scoredResults(query, responses) == calculateRelevance(uniqueResults(responses), query)

topResults(maxResults, query, responses) ==
    slice(sort(scoredResults(query, responses)), maxResults)

\* aggregate that collects the responses from the last to the first at odd times.
aggregateInOrderOfTime(maxResults, query, responses, processedAt) ==
    LET collected == IF processedAt % 2 = 1
                     THEN [i \in DOMAIN responses |-> responses[Len(responses) + 1 - i]]
                     ELSE responses
        top == topResults(maxResults, query, collected)
    IN  [query |-> query,
         totalResults |-> Len(top),
         engines |-> engineStats(responses),
         results |-> top,
         processedAt |-> processedAt]

\* aggregate that counts the deduplicated results in totalResults.
aggregateCountingUnique(maxResults, query, responses, processedAt) ==
    LET top == topResults(maxResults, query, responses)
    IN  [query |-> query,
         totalResults |-> Len(uniqueResults(responses)),
         engines |-> engineStats(responses),
         results |-> top,
         processedAt |-> processedAt]

\* new SearchAggregator(maxResults).aggregate(query, responses) at time processedAt
aggregate(maxResults, query, responses, processedAt) ==
    LET top == topResults(maxResults, query, responses)
    IN  [query |-> query,
         totalResults |-> Len(top),
         engines |-> engineStats(responses),
         results |-> top,
         processedAt |-> processedAt]

(***************************************************************************)
(* The environment of one search: what the caller asks for and what the    *)
(* provider adapters (external) may return or throw.                       *)
(***************************************************************************)
\* this.name of the engines, in the order of validEngines.
EngineNames == <<<<"E", "x", "a">>,
                <<"T", "a", "v", "i", "l", "y">>,
                <<"M", "e", "t", "a", "s", "o">>,
                <<"J", "i", "n", "a">>>>

\* The searches the model runs: the query after validateSearchParams (trimmed, not
\* empty), and the timeout of the engines: the default of the SearchEngine
\* constructor and of DEFAULT_TIMEOUT, or the one runConnectivityTest uses.
Searches == {
    [query |-> <<"r", "u", "s", "t", " ", "l", "a", "n", "g">>, timeout |-> 8000],
    [query |-> <<"r", "u", "s", "t", " ", "r", "u", "s", "t">>, timeout |-> 5000] }

\* maxResults as the caller gives it, before validateSearchParams.
MaxRequested == 1

\* Math.min(Math.max(parseInt(String(params.maxResults)) || 20, 1), 50)
DefaultMaxResults == 20
LeastMaxResults == 1
MostMaxResults == 50
SanitizedMaxResults(requested) ==
    Min(Max(IF requested # 0 THEN requested ELSE DefaultMaxResults, LeastMaxResults),
        MostMaxResults)

UrlRoot == <<"h", "t", "t", "p", "s", ":", "/", "/", "a", ".", "i", "o", "/">>
UrlWww == <<"h", "t", "t", "p", ":", "/", "/", "w", "w", "w", ".", "A", ".", "i", "o">>
UrlBare == <<"a", ".", "i", "o">>
UrlQuery == <<"h", "t", "t", "p", "s", ":", "/", "/", "a", ".", "i", "o", "/", "P", "?", "x", "=", "1", "#", "f">>
UrlSlash == <<"h", "t", "t", "p", "s", ":", "/", "/", "a", ".", "i", "o", "/", "p", "/">>
UrlOther == <<"h", "t", "t", "p", "s", ":", "/", "/", "b", ".", "i", "o", "/", "x">>

LongSnippet == [i \in 1..(LongSnippetLength + 1) |-> "x"]

RawResult(title, url, snippet, source, publishedDate, score) ==
    [title |-> title, url |-> url, snippet |-> snippet, source |-> source,
     publishedDate |-> publishedDate, score |-> score]

\* Raw results an adapter may return (its own value in source).
Hits == {
    RawResult(<<"R", "u", "s", "t", " ", "L", "a", "n", "g">>, UrlRoot, <<>>, <<"x", "+", "y">>, UndefinedText, UndefinedNumber),
    RawResult(<<"R", "u", "s", "t">>, UrlWww, <<"r", "u", "s", "t">>, <<"w", "e", "b">>, Some(<<"2", "0", "2", "4">>), Some(-2)),
    RawResult(<<"r", "u", "s", "t", "-", "l", "a", "n", "g">>, UrlBare, <<>>, <<"w", "e", "b">>, Some(<<>>), UndefinedNumber),
    RawResult(<<"G", "o">>, UrlQuery, <<>>, <<"w", "e", "b">>, UndefinedText, UndefinedNumber),
    RawResult(<<"R", "u", "s", "t">>, UrlSlash, LongSnippet, <<"w", "e", "b">>, Some(<<"2", "0", "2", "3">>), Some(2)),
    RawResult(<<"G", "o">>, UrlOther, <<>>, <<"w", "e", "b">>, UndefinedText, UndefinedNumber) }

\* Lists of at most n raw results.
RECURSIVE HitLists(_)
HitLists(n) ==
    IF n = 0 THEN {<<>>}
    ELSE HitLists(n - 1) \cup
         {Append(l, h) : l \in {k \in HitLists(n - 1) : Len(k) = n - 1}, h \in Hits}

\* Values a provider's search() may throw or reject with: an Error with a
\* message, or a value that is no Error.
ErrorOf(message) == [isError |-> TRUE, message |-> message]
NotAnError == [isError |-> FALSE, message |-> <<>>]
Thrown == {ErrorOf(<<>>), ErrorOf(<<"n", "e", "t", "w", "o", "r", "k", " ", "u", "n", "r", "e", "a", "c", "h", "a", "b", "l", "e">>), ErrorOf(<<"5", "0", "4", " ", "G", "a", "t", "e", "w", "a", "y", " ", "T", "i", "m", "e", "o", "u", "t">>), NotAnError}

(***************************************************************************)
(* SearchEngine.execute (engines/base.ts) and the unified search that      *)
(* runs it for every engine (runUnifiedSearch, executeUnifiedSearch).      *)
(***************************************************************************)
VARIABLES
    query,       \* sanitized.query
    maxResults,  \* sanitized.maxResults
    timeout,     \* this.timeout of every engine of the search
    engines,     \* the engines array: this.name of each, in invocation order
    phase,       \* "mapping": engines.map(execute) runs; "awaiting": the await
                 \* of Promise.all; "aggregated": aggregate has returned
    pc,          \* per engine, where its execute is: "idle", "racing" (at the
                 \* await of Promise.race), "resolved"
    provider,    \* per engine, this.search(params): "notcalled", "threw",
                 \* "pending", "fulfilled", "rejected"
    listener,    \* per engine, whether the abort listener is registered
    timer,       \* per engine, the setTimeout timer: "none", "pending",
                 \* "fired", "cleared"
    startTime,   \* per engine, startTime
    winner,      \* per engine, what settled Promise.race first: "none",
                 \* "search" (this.search(params), a throw of it included), "timer"
    settled,     \* per engine, what this.search(params) settled the race with:
                 \* the results it fulfilled with, or the error it threw
    response,    \* per engine, the EngineResponse its execute resolved to
    now,         \* Date.now()
    result       \* the AggregatedResponse

vars == <<query, maxResults, timeout, engines, phase, pc, provider, listener,
          timer, startTime, winner, settled, response, now, result>>

Engine == DOMAIN engines

NotSettled == [results |-> <<>>, error |-> NotAnError]
NoResponse == [engine |-> <<>>, results |-> <<>>, error |-> UndefinedText, latency |-> 0]
NoResult == [query |-> <<>>, totalResults |-> 0, engines |-> <<>>, results |-> <<>>,
             processedAt |-> 0]

\* The engines array: the first n of EngineNames, n in 1..MaxEngines.
EngineLists == {SubSeq(EngineNames, 1, n) : n \in 1..MaxEngines}

Init ==
    /\ \E s \in Searches : query = s.query /\ timeout = s.timeout
    /\ maxResults \in {SanitizedMaxResults(r) : r \in 0..MaxRequested}
    /\ engines \in EngineLists
    /\ phase = "mapping"
    /\ pc = [i \in Engine |-> "idle"]
    /\ provider = [i \in Engine |-> "notcalled"]
    /\ listener = [i \in Engine |-> FALSE]
    /\ timer = [i \in Engine |-> "none"]
    /\ startTime = [i \in Engine |-> 0]
    /\ winner = [i \in Engine |-> "none"]
    /\ settled = [i \in Engine |-> NotSettled]
    /\ response = [i \in Engine |-> NoResponse]
    /\ now = 0
    /\ result = NoResult

UnknownError == <<"U", "n", "k", "n", "o", "w", "n", " ", "e", "r", "r", "o", "r">>
TimeoutPrefix == <<"T", "i", "m", "e", "o", "u", "t", " ", "a", "f", "t", "e", "r", " ">>
TimeoutSuffix == <<"m", "s">>

\* new Error(`Timeout after ${this.timeout}ms`)
TimeoutError(ms) == ErrorOf(TimeoutPrefix \o NumberToString(ms) \o TimeoutSuffix)

\* SuccessResponse that leaves the source the adapter set.
SuccessResponseWithAdapterSource(name, results, latency) ==
    [engine |-> name,
     results |-> results,
     error |-> UndefinedText,
     latency |-> latency]

\* The object the try block returns.
SuccessResponse(name, results, latency) ==
    [engine |-> name,
     results |-> [k \in DOMAIN results |-> [results[k] EXCEPT !.source = name]],
     error |-> UndefinedText,
     latency |-> latency]

\* FailureResponse with the generic text for whatever was raised.
FailureResponseGeneric(name, error, latency) ==
    [engine |-> name,
     results |-> <<>>,
     error |-> Some(UnknownError),
     latency |-> latency]

\* The object the catch block returns.
FailureResponse(name, error, latency) ==
    [engine |-> name,
     results |-> <<>>,
     error |-> Some(IF error.isError THEN error.message ELSE UnknownError),
     latency |-> latency]

RECURSIVE SumHits(_, _)
SumHits(rs, i) == IF i > Len(rs) THEN 0 ELSE Len(rs[i].results) + SumHits(rs, i + 1)
\* Raw results the resolved responses hold.
TotalHits == SumHits(response, 1)

\* execute up to its await: startTime, setTimeout, this.search(params), which
\* throws at once (caught: the listener is never registered) or returns its promise.
ExecuteStart(i) ==
    /\ phase = "mapping"
    /\ pc[i] = "idle"
    /\ \A j \in 1..(i - 1) : pc[j] # "idle"
    /\ startTime' = [startTime EXCEPT ![i] = now]
    /\ timer' = [timer EXCEPT ![i] = "pending"]
    /\ \/ \E e \in Thrown :
            /\ provider' = [provider EXCEPT ![i] = "threw"]
            /\ winner' = [winner EXCEPT ![i] = "search"]
            /\ settled' = [settled EXCEPT ![i].error = e]
            /\ response' = [response EXCEPT ![i] = FailureResponse(engines[i], e, now - now)]
            /\ pc' = [pc EXCEPT ![i] = "resolved"]
            /\ UNCHANGED listener
       \/ /\ provider' = [provider EXCEPT ![i] = "pending"]
          /\ listener' = [listener EXCEPT ![i] = TRUE]
          /\ pc' = [pc EXCEPT ![i] = "racing"]
          /\ UNCHANGED <<winner, settled, response>>
    /\ phase' = IF i = Len(engines) THEN "awaiting" ELSE "mapping"
    /\ UNCHANGED <<query, maxResults, timeout, engines, now, result>>

\* ProviderFulfils whose late fulfilment replaces the response of the timeout.
ProviderFulfilsOverTimeout(i) ==
    /\ phase # "mapping"
    /\ provider[i] = "pending"
    /\ provider' = [provider EXCEPT ![i] = "fulfilled"]
    /\ \/ /\ pc[i] = "racing"
          /\ \E results \in HitLists(MaxHits - TotalHits) :
                /\ settled' = [settled EXCEPT ![i].results = results]
                /\ response' = [response EXCEPT ![i] =
                      SuccessResponse(engines[i], results, now - startTime[i])]
          /\ winner' = [winner EXCEPT ![i] = "search"]
          /\ timer' = [timer EXCEPT ![i] = "cleared"]
          /\ pc' = [pc EXCEPT ![i] = "resolved"]
       \/ /\ pc[i] = "resolved"
          /\ \E results \in HitLists(MaxHits - TotalHits) :
                /\ settled' = [settled EXCEPT ![i].results = results]
                /\ response' = [response EXCEPT ![i] =
                      SuccessResponse(engines[i], results, now - startTime[i])]
          /\ UNCHANGED <<winner, timer, pc>>
    /\ UNCHANGED <<query, maxResults, timeout, engines, phase, listener, startTime,
                   now, result>>

\* The promise of this.search(params) fulfils. First to settle the race:
\* clearTimeout and the success response. After the timer: nobody reads it.
ProviderFulfils(i) ==
    /\ phase # "mapping"
    /\ provider[i] = "pending"
    /\ provider' = [provider EXCEPT ![i] = "fulfilled"]
    /\ \/ /\ pc[i] = "racing"
          /\ \E results \in HitLists(MaxHits - TotalHits) :
                /\ settled' = [settled EXCEPT ![i].results = results]
                /\ response' = [response EXCEPT ![i] =
                      SuccessResponse(engines[i], results, now - startTime[i])]
          /\ winner' = [winner EXCEPT ![i] = "search"]
          /\ timer' = [timer EXCEPT ![i] = "cleared"]
          /\ pc' = [pc EXCEPT ![i] = "resolved"]
       \/ /\ pc[i] = "resolved"
          /\ UNCHANGED <<winner, settled, response, timer, pc>>
    /\ UNCHANGED <<query, maxResults, timeout, engines, phase, listener, startTime,
                   now, result>>

\* The promise of this.search(params) rejects. First to settle the race: the
\* catch block (which leaves the timer armed). After the timer: nobody reads it.
ProviderRejects(i) ==
    /\ phase # "mapping"
    /\ provider[i] = "pending"
    /\ provider' = [provider EXCEPT ![i] = "rejected"]
    /\ \/ /\ pc[i] = "racing"
          /\ \E e \in Thrown :
                /\ settled' = [settled EXCEPT ![i].error = e]
                /\ response' = [response EXCEPT ![i] =
                      FailureResponse(engines[i], e, now - startTime[i])]
          /\ winner' = [winner EXCEPT ![i] = "search"]
          /\ pc' = [pc EXCEPT ![i] = "resolved"]
       \/ /\ pc[i] = "resolved"
          /\ UNCHANGED <<winner, settled, response, pc>>
    /\ UNCHANGED <<query, maxResults, timeout, engines, phase, listener, timer,
                   startTime, now, result>>

\* TimerFires with an abort that no listener hears: the timer fires and the race
\* stays unsettled.
TimerFiresUnheard(i) ==
    /\ phase # "mapping"
    /\ timer[i] = "pending"
    /\ timer' = [timer EXCEPT ![i] = "fired"]
    /\ UNCHANGED <<query, maxResults, timeout, engines, phase, pc, provider, listener,
                   startTime, winner, settled, response, now, result>>

\* TimerFires with one AbortController for all the executes: the abort rejects
\* the race of every engine that has a listener.
TimerFiresForAll(i) ==
    /\ phase # "mapping"
    /\ timer[i] = "pending"
    /\ timer' = [timer EXCEPT ![i] = "fired"]
    /\ response' = [j \in Engine |->
                       IF listener[j] /\ pc[j] = "racing"
                       THEN FailureResponse(engines[j], TimeoutError(timeout),
                                            now - startTime[j])
                       ELSE response[j]]
    /\ winner' = [j \in Engine |->
                     IF listener[j] /\ pc[j] = "racing" THEN "timer" ELSE winner[j]]
    /\ pc' = [j \in Engine |->
                 IF listener[j] /\ pc[j] = "racing" THEN "resolved" ELSE pc[j]]
    /\ UNCHANGED <<query, maxResults, timeout, engines, phase, provider, listener,
                   startTime, settled, now, result>>

\* The timer fires: controller.abort(). The listener, when registered, rejects
\* the second promise of the race; that settles the race when the provider has not.
TimerFires(i) ==
    /\ phase # "mapping"
    /\ timer[i] = "pending"
    /\ timer' = [timer EXCEPT ![i] = "fired"]
    /\ \/ /\ listener[i] /\ pc[i] = "racing"
          /\ response' = [response EXCEPT ![i] =
                FailureResponse(engines[i], TimeoutError(timeout), now - startTime[i])]
          /\ winner' = [winner EXCEPT ![i] = "timer"]
          /\ pc' = [pc EXCEPT ![i] = "resolved"]
       \/ /\ ~(listener[i] /\ pc[i] = "racing")
          /\ UNCHANGED <<winner, response, pc>>
    /\ UNCHANGED <<query, maxResults, timeout, engines, phase, provider, listener,
                   startTime, settled, now, result>>

\* A millisecond passes while the search awaits its engines.
Tick ==
    /\ phase = "awaiting"
    /\ now < MaxClock
    /\ now' = now + 1
    /\ UNCHANGED <<query, maxResults, timeout, engines, phase, pc, provider, listener,
                   timer, startTime, winner, settled, response, result>>

\* Aggregate with the responses in the order in which the executes resolved.
AggregateInCompletionOrder ==
    LET Rank(i) == Cardinality({j \in Engine :
                                   \/ response[j].latency < response[i].latency
                                   \/ response[j].latency = response[i].latency /\ j < i}) + 1
        completed == [n \in Engine |-> response[CHOOSE i \in Engine : Rank(i) = n]]
    IN  /\ phase = "awaiting"
        /\ \A i \in Engine : pc[i] = "resolved"
        /\ result' = aggregate(maxResults, query, completed, now)
        /\ phase' = "aggregated"
        /\ UNCHANGED <<query, maxResults, timeout, engines, pc, provider, listener, timer,
                       startTime, winner, settled, response, now>>

\* Aggregate that runs as soon as one execute has resolved.
AggregateWhenAnyResolved ==
    /\ phase = "awaiting"
    /\ \E i \in Engine : pc[i] = "resolved"
    /\ result' = aggregate(maxResults, query, response, now)
    /\ phase' = "aggregated"
    /\ UNCHANGED <<query, maxResults, timeout, engines, pc, provider, listener, timer,
                   startTime, winner, settled, response, now>>

\* Aggregate that writes the relevance score into the raw results it was given.
AggregateScoringInPlace ==
    /\ phase = "awaiting"
    /\ \A i \in Engine : pc[i] = "resolved"
    /\ result' = aggregate(maxResults, query, response, now)
    /\ response' = [i \in Engine |->
                       [response[i] EXCEPT !.results =
                           calculateRelevance(response[i].results, query)]]
    /\ phase' = "aggregated"
    /\ UNCHANGED <<query, maxResults, timeout, engines, pc, provider, listener, timer,
                   startTime, winner, settled, now>>

\* Promise.all has every response, in the order of engines; aggregate runs.
Aggregate ==
    /\ phase = "awaiting"
    /\ \A i \in Engine : pc[i] = "resolved"
    /\ result' = aggregate(maxResults, query, response, now)
    /\ phase' = "aggregated"
    /\ UNCHANGED <<query, maxResults, timeout, engines, pc, provider, listener, timer,
                   startTime, winner, settled, response, now>>

Next ==
    \/ \E i \in Engine : ExecuteStart(i)
    \/ \E i \in Engine : ProviderFulfils(i)
    \/ \E i \in Engine : ProviderRejects(i)
    \/ \E i \in Engine : TimerFires(i)
    \/ Tick
    \/ Aggregate

Spec == Init /\ [][Next]_vars

\* engines.map runs every execute up to its await without yielding, and a timer
\* that is armed fires unless clearTimeout cancels it.
FairSpec ==
    /\ Spec
    /\ \A i \in 1..MaxEngines :
          /\ WF_vars(i \in Engine /\ ExecuteStart(i))
          /\ WF_vars(i \in Engine /\ TimerFires(i))

(***************************************************************************)
(* Vocabulary of the properties.                                           *)
(***************************************************************************)
\* execute of engine i has resolved because its provider threw or rejected.
ProviderFailed(i) ==
    pc[i] = "resolved" /\ winner[i] = "search" /\ provider[i] \in {"threw", "rejected"}
\* execute of engine i has resolved because its timer fired first.
TimedOut(i) == pc[i] = "resolved" /\ winner[i] = "timer"
\* execute of engine i has resolved because its provider fulfilled first.
ProviderSucceeded(i) ==
    pc[i] = "resolved" /\ winner[i] = "search" /\ provider[i] = "fulfilled"

\* The text `Timeout after <ms>ms`.
TimeoutText(ms) == TimeoutPrefix \o NumberToString(ms) \o TimeoutSuffix

\* The collected raw results and their normalized URLs.
Collected == allResults(response, 1)
KeyOf(r) == normalizeUrl(r.url)
\* Where a normalized URL is first seen in the collected results.
FirstSeen(key) ==
    CHOOSE k \in DOMAIN Collected :
        /\ KeyOf(Collected[k]) = key
        /\ \A j \in 1..(k - 1) : KeyOf(Collected[j]) # key
\* The Canonical Results before ranking.
Canonical == scoredResults(query, response)

(***************************************************************************)
(* C1: whenever a provider's search() throws, rejects, or is overtaken by  *)
(* the timer, execute resolves to a response with an empty results list    *)
(* and an error text that is not empty.                                    *)
(***************************************************************************)
C1_FailureHasErrorText ==
    \A i \in Engine :
        (ProviderFailed(i) \/ TimedOut(i)) =>
            /\ response[i].results = <<>>
            /\ response[i].error.defined
            /\ response[i].error.value # <<>>

(***************************************************************************)
(* C2: every execute that has started resolves, given that its timer       *)
(* fires, also when its provider never settles; and once it has resolved,  *)
(* its response is the one it keeps.                                       *)
(***************************************************************************)
C2_ExecuteResolvesOnce ==
    /\ \A i \in 1..MaxEngines :
          (i \in Engine /\ pc[i] = "racing") ~> (i \in Engine /\ pc[i] = "resolved")
    /\ [][\A i \in Engine :
            pc[i] = "resolved" => pc'[i] = "resolved" /\ response'[i] = response[i]]_vars

\* An execute resolved by its timer while its provider is still pending.
C2_Witness ==
    \E i \in Engine : TimedOut(i) /\ provider[i] = "pending" /\ timer[i] = "fired"

(***************************************************************************)
(* C3: the first of provider and timer to settle decides the response:     *)
(* timer first, empty results and the error `Timeout after <timeout>ms`;   *)
(* provider fulfilled first, a success (no error); provider rejected       *)
(* first, a failure (empty results, an error that is not empty) other than *)
(* that timeout.                                                           *)
(***************************************************************************)
C3_FirstSettledDecides ==
    \A i \in Engine :
        /\ TimedOut(i) =>
              /\ response[i].results = <<>>
              /\ response[i].error = Some(TimeoutText(timeout))
        /\ ProviderSucceeded(i) => ~response[i].error.defined
        /\ ProviderFailed(i) =>
              /\ response[i].results = <<>>
              /\ TruthyText(response[i].error)
              /\ response[i].error.value # TimeoutText(timeout)

(***************************************************************************)
(* C4: the results list aggregate returns is no longer than the maximum    *)
(* result count the aggregator was constructed with.                       *)
(***************************************************************************)
C4_AtMostMaxResults ==
    phase = "aggregated" => Len(result.results) <= maxResults

\* More Canonical Results than the maximum, cut down to the maximum.
C4_Witness ==
    /\ phase = "aggregated"
    /\ Len(Canonical) > maxResults
    /\ Len(result.results) = maxResults

C6_AllFailedAllFailureStatus ==
    (phase = "aggregated" /\ \A i \in Engine : ProviderFailed(i) \/ TimedOut(i)) =>
        /\ result.results = <<>>
        /\ result.totalResults = 0
        /\ \A i \in DOMAIN result.engines :
              result.engines[i].status \in {"error", "timeout"}

(***************************************************************************)
(* C7: engines has one entry per response, in the order of the responses,  *)
(* with that response's name, latency, error and number of raw results;    *)
(* failed providers and providers whose results were all cut are listed.   *)
(***************************************************************************)
C7_OneEntryPerResponse ==
    phase = "aggregated" =>
        /\ DOMAIN result.engines = DOMAIN response
        /\ \A i \in DOMAIN response :
              /\ result.engines[i].name = response[i].engine
              /\ result.engines[i].name = engines[i]
              /\ result.engines[i].latency = response[i].latency
              /\ result.engines[i].error = response[i].error
              /\ result.engines[i].count = Len(response[i].results)

\* Two engines with different latencies, one of them with raw results none of
\* which is returned.
C7_Witness ==
    /\ phase = "aggregated"
    /\ Len(result.engines) = 2
    /\ result.engines[1].latency # result.engines[2].latency
    /\ \E i \in Engine :
          /\ result.engines[i].count > 0
          /\ \A k \in DOMAIN response[i].results :
                ~\E a \in DOMAIN result.results :
                    KeyOf(result.results[a]) = KeyOf(response[i].results[k])

(***************************************************************************)
(* C8: an engine's status is timeout when its error text holds "Timeout",  *)
(* error when it has another error, success otherwise; a provider          *)
(* overtaken by its timer gets timeout and a provider that raises an       *)
(* error that is no timeout gets error.                                    *)
(***************************************************************************)
C8_StatusFromError ==
    phase = "aggregated" =>
        \A i \in Engine :
            LET error == response[i].error
                status == result.engines[i].status
            IN  /\ (TruthyText(error) /\ includes(error.value, TimeoutWord))
                      => status = "timeout"
                /\ (TruthyText(error) /\ ~includes(error.value, TimeoutWord))
                      => status = "error"
                /\ ~TruthyText(error) => status = "success"
                /\ TimedOut(i) => status = "timeout"
                /\ (ProviderFailed(i) /\ ~includes(settled[i].error.message, TimeoutWord))
                      => status = "error"

(***************************************************************************)
(* C9: the returned results are in order of non-increasing relevance       *)
(* score; results of equal score are in the order in which their           *)
(* normalized URLs were first seen in the collected input; and a Canonical *)
(* Result that was cut scores no more than any returned one.               *)
(***************************************************************************)
C9_RankedStableTruncated ==
    phase = "aggregated" =>
        LET returned == result.results
            returnedKeys == {KeyOf(returned[a]) : a \in DOMAIN returned}
        IN  /\ \A a \in DOMAIN returned : \E c \in DOMAIN Canonical : returned[a] = Canonical[c]
            /\ \A a, b \in DOMAIN returned :
                  a < b =>
                    /\ returned[a].relevanceScore >= returned[b].relevanceScore
                    /\ returned[a].relevanceScore = returned[b].relevanceScore
                          => FirstSeen(KeyOf(returned[a])) < FirstSeen(KeyOf(returned[b]))
            /\ \A c \in DOMAIN Canonical :
                  KeyOf(Canonical[c]) \notin returnedKeys =>
                      \A a \in DOMAIN returned :
                          Canonical[c].relevanceScore <= returned[a].relevanceScore

\* Two returned results of equal score.
C9_Witness ==
    /\ phase = "aggregated"
    /\ Len(result.results) = 2
    /\ result.results[1].relevanceScore = result.results[2].relevanceScore

(***************************************************************************)
(* C10: of a Canonical Result's relevance score, the part that depends on  *)
(* its sources is 15 for every contributing provider beyond the first:     *)
(* (k - 1) * 15 for k providers that returned its normalized URL.          *)
(***************************************************************************)
C10_BonusPerExtraProvider ==
    phase = "aggregated" =>
        \* the providers that returned a raw result with this normalized URL
        LET Contributors(key) ==
                {i \in Engine : \E k \in DOMAIN response[i].results :
                                    KeyOf(response[i].results[k]) = key}
        IN
        \A c \in DOMAIN Canonical :
            Canonical[c].relevanceScore
                = RelevanceOf([Canonical[c] EXCEPT !.source = <<>>], query)
                  + MultiSourceBonus * (Cardinality(Contributors(KeyOf(Canonical[c]))) - 1)

(***************************************************************************)
(* C11: for two raw results with the same normalized URL, the merged       *)
(* title and the merged snippet are the longer of the two and do not       *)
(* depend on which of the two arrives first, texts of equal length         *)
(* included.                                                               *)
(***************************************************************************)
C11_MergeCommutesOnText ==
    \A k, l \in DOMAIN Collected :
        KeyOf(Collected[k]) = KeyOf(Collected[l]) =>
            LET a == Collected[k]
                b == Collected[l]
            IN  /\ mergeResults(a, b).title = mergeResults(b, a).title
                /\ mergeResults(a, b).snippet = mergeResults(b, a).snippet

\* C11 as the code has it: the merged text is the longer one whichever arrives
\* first, and of two texts of equal length it is the one that arrived first.
C11_MergeKeepsLongerOrFirst ==
    \A k, l \in DOMAIN Collected :
        KeyOf(Collected[k]) = KeyOf(Collected[l]) =>
            LET a == Collected[k]
                b == Collected[l]
                Longer(x, y) == IF Len(x) > Len(y) THEN x ELSE y
            IN  /\ Len(a.title) # Len(b.title) =>
                      /\ mergeResults(a, b).title = Longer(a.title, b.title)
                      /\ mergeResults(b, a).title = Longer(a.title, b.title)
                /\ Len(a.title) = Len(b.title) => mergeResults(a, b).title = a.title
                /\ Len(a.snippet) # Len(b.snippet) =>
                      /\ mergeResults(a, b).snippet = Longer(a.snippet, b.snippet)
                      /\ mergeResults(b, a).snippet = Longer(a.snippet, b.snippet)
                /\ Len(a.snippet) = Len(b.snippet) => mergeResults(a, b).snippet = a.snippet

\* Two merged raw results whose titles differ and are equally long, and the
\* Canonical Result with the title of the first.
C11_Witness ==
    /\ phase = "aggregated"
    /\ Len(Collected) = 2
    /\ KeyOf(Collected[1]) = KeyOf(Collected[2])
    /\ Collected[1].title # Collected[2].title
    /\ Len(Collected[1].title) = Len(Collected[2].title)
    /\ Len(Canonical) = 1
    /\ Canonical[1].title = Collected[1].title

(***************************************************************************)
(* C12: when no two collected raw results have the same normalized URL,    *)
(* the Canonical Results are the raw results in collected order, with      *)
(* title, url, snippet, source, publishedDate and score unchanged and      *)
(* relevanceScore the only field added.                                    *)
(***************************************************************************)
C12_DedupOfDistinctIsIdentity ==
    LET collected == Collected
        key == [k \in DOMAIN collected |-> KeyOf(collected[k])]
        canonical == Canonical
    IN  (\A k, l \in DOMAIN collected : k # l => key[k] # key[l]) =>
            /\ DOMAIN canonical = DOMAIN collected
            /\ uniqueResults(response) = collected
            /\ \A k \in DOMAIN collected :
                  /\ DOMAIN canonical[k] = DOMAIN collected[k] \cup {"relevanceScore"}
                  /\ \A field \in DOMAIN collected[k] :
                        canonical[k][field] = collected[k][field]

\* Two collected raw results with different normalized URLs, aggregated.
C12_Witness ==
    /\ phase = "aggregated"
    /\ Len(Collected) = 2
    /\ KeyOf(Collected[1]) # KeyOf(Collected[2])
    /\ Len(Canonical) = 2

C14_ResponsesInInvocationOrder ==
    phase = "aggregated" =>
        LET collected == Collected
            key == [k \in DOMAIN collected |-> KeyOf(collected[k])]
            returned == result.results
            \* the collected results with the normalized URL of a returned one
            Same(a) == {k \in DOMAIN collected : key[k] = KeyOf(returned[a])}
            First(a) == CHOOSE k \in Same(a) : \A l \in Same(a) : k <= l
            Last(a) == CHOOSE k \in Same(a) : \A l \in Same(a) : k >= l
            Dated(a) == {k \in Same(a) : TruthyText(collected[k].publishedDate)}
        IN  /\ \A i \in Engine :
                  /\ response[i].engine = engines[i]
                  /\ result.engines[i].name = engines[i]
                  /\ \A k \in DOMAIN response[i].results :
                        response[i].results[k].source = engines[i]
            /\ \A i, j \in Engine :
                  i < j => \A k \in DOMAIN response[i].results :
                              \A l \in DOMAIN response[j].results :
                                  \E m, n \in DOMAIN collected :
                                      /\ m < n
                                      /\ collected[m] = response[i].results[k]
                                      /\ collected[n] = response[j].results[l]
            /\ \A a \in DOMAIN returned :
                  /\ returned[a].url = collected[First(a)].url
                  /\ returned[a].publishedDate =
                        IF Dated(a) # {}
                        THEN collected[CHOOSE k \in Dated(a) : \A l \in Dated(a) : k <= l].publishedDate
                        ELSE collected[Last(a)].publishedDate
            /\ \A a, b \in DOMAIN returned :
                  (a < b /\ returned[a].relevanceScore = returned[b].relevanceScore)
                      => First(a) < First(b)

\* The second engine resolved before the first, both with the same normalized
\* URL under different urls: the merged result has the url of the first engine.
C14_Witness ==
    /\ phase = "aggregated"
    /\ Len(engines) = 2
    /\ response[2].latency < response[1].latency
    /\ Len(response[1].results) = 1
    /\ Len(response[2].results) = 1
    /\ response[1].results[1].url # response[2].results[1].url
    /\ KeyOf(response[1].results[1]) = KeyOf(response[2].results[1])
    /\ Len(result.results) = 1
    /\ result.results[1].url = response[1].results[1].url

(***************************************************************************)
(* C15: when the provider fulfils before the timer fires, execute returns  *)
(* a response without error whose results are the provider's results, in   *)
(* the same order and with the same fields, but for source, which is the   *)
(* executor's provider name whatever the adapter set.                      *)
(***************************************************************************)
C15_SuccessKeepsResultsSetsSource ==
    \A i \in Engine :
        ProviderSucceeded(i) =>
            LET given == settled[i].results
                kept == response[i].results
            IN  /\ ~response[i].error.defined
                /\ response[i].engine = engines[i]
                /\ DOMAIN kept = DOMAIN given
                /\ \A k \in DOMAIN given :
                      /\ DOMAIN kept[k] = DOMAIN given[k]
                      /\ \A field \in DOMAIN given[k] \ {"source"} :
                            kept[k][field] = given[k][field]
                      /\ kept[k].source = engines[i]

\* A provider that fulfilled first with two results, one of them with a source
\* of the adapter's own.
C15_Witness ==
    \E i \in Engine :
        /\ ProviderSucceeded(i)
        /\ Len(settled[i].results) = 2
        /\ settled[i].results[1] # settled[i].results[2]
        /\ \E k \in DOMAIN settled[i].results :
              /\ settled[i].results[k].source # engines[i]
              /\ includes(settled[i].results[k].source, <<"+">>)
        /\ response[i].results # <<>>

(***************************************************************************)
(* C16: when the provider raises or rejects before the timer fires,        *)
(* execute returns a response with an empty results list whose error is    *)
(* the message of what was raised, or "Unknown error" when that is no      *)
(* Error; and no response of execute has an error and results.             *)
(***************************************************************************)
C16_FailureCarriesMessage ==
    \A i \in Engine :
        /\ ProviderFailed(i) =>
              /\ response[i].results = <<>>
              /\ response[i].engine = engines[i]
              /\ response[i].error =
                    Some(IF settled[i].error.isError THEN settled[i].error.message
                         ELSE UnknownError)
        /\ pc[i] = "resolved" => ~(response[i].error.defined /\ response[i].results # <<>>)

\* One provider raised an Error with a message and another a value that is no
\* Error.
C16_Witness ==
    \E i, j \in Engine :
        /\ ProviderFailed(i)
        /\ settled[i].error.isError
        /\ settled[i].error.message # <<>>
        /\ response[i].error = Some(settled[i].error.message)
        /\ ProviderFailed(j)
        /\ ~settled[j].error.isError
        /\ response[j].error = Some(UnknownError)

(***************************************************************************)
(* C17: totalResults is the length of the returned results list, after     *)
(* truncation; it is not the number of raw or of deduplicated results.     *)
(***************************************************************************)
C17_TotalIsReturnedLength ==
    phase = "aggregated" => result.totalResults = Len(result.results)

\* More raw and more deduplicated results than results returned.
C17_Witness ==
    /\ phase = "aggregated"
    /\ Len(Collected) > Len(result.results)
    /\ Len(Canonical) > Len(result.results)
    /\ result.totalResults = Len(result.results)
    /\ result.totalResults > 0

(***************************************************************************)
(* C18: once execute has resolved with a timeout failure, the provider     *)
(* call fulfilling or rejecting later changes nothing in that response,    *)
(* and the Aggregated Result has no result of a provider whose engine      *)
(* entry has status timeout.                                               *)
(***************************************************************************)
C18_LateOutcomeIsDiscarded ==
    /\ [][\A i \in Engine :
            TimedOut(i) => /\ response'[i] = response[i]
                           /\ pc'[i] = "resolved"
                           /\ winner'[i] = "timer"]_vars
    /\ [](phase = "aggregated" =>
            \A i \in Engine :
                result.engines[i].status = "timeout" =>
                    /\ result.engines[i].count = 0
                    /\ \A a \in DOMAIN result.results :
                          ~includes(result.results[a].source, engines[i]))

\* A provider that fulfilled after its timeout, listed as timeout in an
\* Aggregated Result that has a result of another provider.
C18_Witness ==
    /\ phase = "aggregated"
    /\ result.results # <<>>
    /\ \E i \in Engine :
          /\ TimedOut(i)
          /\ provider[i] = "fulfilled"
          /\ result.engines[i].status = "timeout"
          /\ response[i].error = Some(TimeoutText(timeout))

(***************************************************************************)
(* C19: in a unified search every selected provider's execute is started   *)
(* before any of them is awaited, and aggregate runs only when every       *)
(* started execute has resolved: never on a part of the responses.         *)
(***************************************************************************)
C19_AllStartedThenAllJoined ==
    \* while the executes are being started nothing is awaited: no provider
    \* promise and no timer is handled, only a search() that throws at once
    /\ phase = "mapping" =>
          \A i \in Engine :
              /\ timer[i] \in {"none", "pending"}
              /\ provider[i] \in {"notcalled", "pending", "threw"}
              /\ pc[i] = "resolved" => provider[i] = "threw"
    /\ phase # "mapping" => \A i \in Engine : pc[i] # "idle"
    /\ phase = "aggregated" =>
          /\ \A i \in Engine : pc[i] = "resolved" /\ response[i].engine = engines[i]
          /\ DOMAIN result.engines = Engine
          /\ result.totalResults = Len(topResults(maxResults, query, response))

\* Two executes that raced at the same time, the second resolved before the
\* first, aggregated when both had resolved.
C19_Witness ==
    /\ phase = "aggregated"
    /\ Len(engines) = 2
    /\ listener[1] /\ listener[2]
    /\ startTime[1] = startTime[2]
    /\ response[2].latency < response[1].latency
    /\ Len(result.engines) = 2

(***************************************************************************)
(* C20: the source of a Canonical Result names each provider that          *)
(* contributed to it once, so the multi-source bonus counts distinct       *)
(* providers: a provider that returns the same normalized URL twice gives  *)
(* a source without "+" and no bonus.                                      *)
(***************************************************************************)
C20_SourceNamesDistinctProviders ==
    phase = "aggregated" =>
        LET canonical == Canonical
            \* the providers that returned a raw result with this normalized URL
            Providers(key) ==
                {i \in Engine : \E k \in DOMAIN response[i].results :
                                    KeyOf(response[i].results[k]) = key}
        IN  \A c \in DOMAIN canonical :
                LET providers == Providers(KeyOf(canonical[c]))
                IN  /\ \A i \in providers : includes(canonical[c].source, engines[i])
                    /\ splitLength(canonical[c].source, "+") = Cardinality(providers)
                    /\ Cardinality(providers) = 1 =>
                          /\ ~includes(canonical[c].source, <<"+">>)
                          /\ SourceBonus(canonical[c].source) = 0

(***************************************************************************)
(* C21: a query token counts once in the relevance score: +10 for every    *)
(* distinct query token among the title's tokens and +3 for every          *)
(* distinct query token among the snippet's tokens, so a word repeated in  *)
(* the query raises no score.                                              *)
(***************************************************************************)
C21_QueryTokenCountsOnce ==
    phase = "aggregated" =>
        LET canonical == Canonical
            queryTerms == tokenize(query)
        IN  \A c \in DOMAIN canonical :
                LET titleTerms == tokenize(canonical[c].title)
                    snippetTerms == tokenize(canonical[c].snippet)
                    \* what the score holds besides the terms
                    others == RelevanceOf(canonical[c], query)
                              - TermScore(queryTerms, titleTerms, snippetTerms, 1)
                IN  canonical[c].relevanceScore =
                        TitleTermWeight
                            * Cardinality(Range(queryTerms) \cap Range(titleTerms))
                        + SnippetTermWeight
                            * Cardinality(Range(queryTerms) \cap Range(snippetTerms))
                        + others

(***************************************************************************)
(* C22: after the merges, the url of a Canonical Result is the url, as it  *)
(* was given, of the first raw result seen with its normalized URL, and    *)
(* its publishedDate is the first publishedDate that is not empty, in      *)
(* collected order.                                                        *)
(***************************************************************************)
C22_FirstUrlFirstDate ==
    LET collected == Collected
        key == [k \in DOMAIN collected |-> KeyOf(collected[k])]
        canonical == Canonical
    IN  \A c \in DOMAIN canonical :
            LET same == {k \in DOMAIN collected : key[k] = KeyOf(canonical[c])}
                dated == {k \in same : TruthyText(collected[k].publishedDate)}
                first == CHOOSE k \in same : \A l \in same : k <= l
            IN  /\ same # {}
                /\ canonical[c].url = collected[first].url
                /\ dated # {} =>
                      canonical[c].publishedDate =
                          collected[CHOOSE k \in dated : \A l \in dated : k <= l].publishedDate

\* A merge of a result without a date and a later one with a date, under
\* different urls.
C22_Witness ==
    /\ phase = "aggregated"
    /\ Len(Collected) = 2
    /\ Len(Canonical) = 1
    /\ Collected[1].url # Collected[2].url
    /\ ~TruthyText(Collected[1].publishedDate)
    /\ TruthyText(Collected[2].publishedDate)
    /\ Canonical[1].url = Collected[1].url
    /\ Canonical[1].url # KeyOf(Canonical[1])
    /\ Canonical[1].publishedDate = Collected[2].publishedDate

(***************************************************************************)
(* C23: after the merges, the provider-native score of a Canonical Result  *)
(* is the greatest of the scores that the merged raw results carry,        *)
(* negative scores included, and it adds nothing to the relevance score    *)
(* when none of them carries a score.                                      *)
(***************************************************************************)
C23_MergedScoreIsMaximum ==
    LET collected == Collected
        key == [k \in DOMAIN collected |-> KeyOf(collected[k])]
        canonical == Canonical
    IN  \A c \in DOMAIN canonical :
            LET same == {k \in DOMAIN collected : key[k] = KeyOf(canonical[c])}
                scores == {collected[k].score.value :
                              k \in {l \in same : collected[l].score.defined}}
            IN  Cardinality(same) > 1 =>
                    /\ scores # {} =>
                          /\ canonical[c].score.defined
                          /\ canonical[c].score.value \in scores
                          /\ \A s \in scores : s <= canonical[c].score.value
                    /\ scores = {} => ~TruthyNumber(canonical[c].score)

(***************************************************************************)
(* C24: aggregate returns min(N, D) results, N the maximum result count    *)
(* and D the number of distinct normalized URLs among all the raw results  *)
(* supplied.                                                               *)
(***************************************************************************)
C24_ReturnsMinOfMaxAndDistinct ==
    phase = "aggregated" =>
        LET collected == Collected
            distinct == {KeyOf(collected[k]) : k \in DOMAIN collected}
        IN  /\ Len(result.results) = Min(maxResults, Cardinality(distinct))
            /\ result.totalResults = Min(maxResults, Cardinality(distinct))

\* Two providers, each with one result of a normalized URL of its own: both
\* returned, both engines success, nothing merged.
C24_Witness ==
    /\ phase = "aggregated"
    /\ Len(engines) = 2
    /\ \A i \in Engine : Len(response[i].results) = 1 /\ result.engines[i].status = "success"
    /\ KeyOf(response[1].results[1]) # KeyOf(response[2].results[1])
    /\ maxResults > 2
    /\ Len(result.results) = 2
    /\ \A a \in DOMAIN result.results : ~includes(result.results[a].source, <<"+">>)

(***************************************************************************)
(* C25: deduplication discards no raw result: a URL that does not parse    *)
(* has its text in lower case as its key, and every raw result of every    *)
(* response either starts a Canonical Result or is merged into the one of  *)
(* its key, so every normalized URL supplied is among the Canonical        *)
(* Results before truncation.                                              *)
(***************************************************************************)
C25_DedupDiscardsNothing ==
    LET collected == Collected
        key == [k \in DOMAIN collected |-> KeyOf(collected[k])]
        canonical == Canonical
    IN  /\ \A k \in DOMAIN collected :
              /\ ~ParseURL(collected[k].url).ok => key[k] = toLowerCase(collected[k].url)
              /\ \E c \in DOMAIN canonical : KeyOf(canonical[c]) = key[k]
        /\ \A c \in DOMAIN canonical :
              \* one name in source for every raw result of the key
              splitLength(canonical[c].source, "+")
                  = Cardinality({k \in DOMAIN collected : key[k] = KeyOf(canonical[c])})

\* A raw result whose URL does not parse, kept as a Canonical Result beside one
\* of another normalized URL.
C25_Witness ==
    /\ phase = "aggregated"
    /\ Len(Collected) = 2
    /\ ~ParseURL(Collected[1].url).ok
    /\ ParseURL(Collected[2].url).ok
    /\ Len(Canonical) = 2
    /\ Canonical[1].url = Collected[1].url
    /\ KeyOf(Canonical[1]) = toLowerCase(Collected[1].url)

(***************************************************************************)
(* C26: concurrent executes are independent: in every interleaving, what   *)
(* happens to one provider (its start, fulfilment, failure, timeout or     *)
(* late completion) changes neither the outcome nor the results nor the    *)
(* error of the response of another provider.                              *)
(***************************************************************************)
C26_ExecutesAreIndependent ==
    [][\A i, j \in Engine :
          (/\ i # j
           /\ \/ provider'[i] # provider[i]
              \/ timer'[i] # timer[i]
              \/ pc'[i] # pc[i]
              \/ response'[i] # response[i])
          => /\ response'[j] = response[j]
             /\ pc'[j] = pc[j]
             /\ winner'[j] = winner[j]
             /\ timer'[j] = timer[j]
             /\ listener'[j] = listener[j]]_vars

\* One provider timed out and completed late, another one fulfilled in time
\* with results.
C26_Witness ==
    \E i, j \in Engine :
        /\ TimedOut(i)
        /\ provider[i] \in {"fulfilled", "rejected"}
        /\ ProviderSucceeded(j)
        /\ response[j].results # <<>>
        /\ ~response[j].error.defined

(***************************************************************************)
(* C27: when execute has resolved, the timer it armed is not pending any   *)
(* more: it has fired or it was cancelled, after a success and after a     *)
(* failure of the provider alike.                                          *)
(***************************************************************************)
C27_NoTimerLeftPending ==
    \A i \in Engine : pc[i] = "resolved" => timer[i] \in {"fired", "cleared"}

(***************************************************************************)
(* C28: an engine entry has status timeout only when the timer of that     *)
(* provider's execute fired before the provider settled: a provider that   *)
(* rejects before the deadline is never listed as timeout, whatever its    *)
(* message, and a failure made by the timer is never listed as error.      *)
(***************************************************************************)
C28_TimeoutOnlyFromTimer ==
    phase = "aggregated" =>
        \A i \in Engine :
            /\ result.engines[i].status = "timeout" => TimedOut(i)
            /\ ProviderFailed(i) => result.engines[i].status # "timeout"
            /\ TimedOut(i) => result.engines[i].status # "error"

\* C28 as the code has it: the status is read from the error text, so timeout
\* is the status of the timer's failure and of a provider's failure whose
\* message holds "Timeout", and of no other response.
C28_TimeoutFromErrorText ==
    phase = "aggregated" =>
        \A i \in Engine :
            /\ result.engines[i].status = "timeout"
                  <=> \/ TimedOut(i)
                      \/ ProviderFailed(i) /\ settled[i].error.isError
                                           /\ includes(settled[i].error.message, TimeoutWord)
            /\ TimedOut(i) => result.engines[i].status # "error"

\* A provider that rejected before the deadline with a message that holds
\* "Timeout", listed as timeout beside a provider that did time out.
C28_Witness ==
    /\ phase = "aggregated"
    /\ \E i, j \in Engine :
          /\ ProviderFailed(i)
          /\ timer[i] # "fired"
          /\ result.engines[i].status = "timeout"
          /\ TimedOut(j)
          /\ result.engines[j].status = "timeout"

(***************************************************************************)
(* C29: aggregate leaves its inputs as they were: the list of responses,   *)
(* the results list of each response and every raw result keep their       *)
(* order and field values; merging, scoring and sorting work on copies.    *)
(***************************************************************************)
C29_AggregateLeavesInputs ==
    /\ [][(phase # "aggregated" /\ phase' = "aggregated") =>
              /\ response' = response
              /\ settled' = settled
              /\ engines' = engines]_vars
    /\ [](phase = "aggregated" =>
            \A i \in Engine :
                /\ ProviderSucceeded(i) =>
                      response[i] = SuccessResponse(engines[i], settled[i].results,
                                                    response[i].latency)
                /\ \A k \in DOMAIN response[i].results :
                      /\ "relevanceScore" \notin DOMAIN response[i].results[k]
                      /\ response[i].results[k].source = engines[i])

\* An aggregation that merged two raw results and scored the merged one; the
\* two raw results are in their response as before.
C29_Witness ==
    /\ phase = "aggregated"
    /\ Len(result.results) = 1
    /\ includes(result.results[1].source, <<"+">>)
    /\ result.results[1].relevanceScore > 0
    /\ \E i \in Engine :
          /\ Len(response[i].results) = 2
          /\ response[i].results[1] # response[i].results[2]
          /\ \A k \in DOMAIN response[i].results :
                response[i].results[k] = [settled[i].results[k] EXCEPT !.source = engines[i]]

(***************************************************************************)
(* C30: every result aggregate returns comes from the responses supplied:  *)
(* its url is the url of a raw result of a successful response, every      *)
(* provider named in its source returned a raw result with its normalized  *)
(* URL, and totalResults is at most the sum of the engines' counts.        *)
(***************************************************************************)
C30_ResultsComeFromResponses ==
    phase = "aggregated" =>
        LET returned == result.results
            counted[n \in 0..Len(result.engines)] ==
                IF n = 0 THEN 0 ELSE counted[n - 1] + result.engines[n].count
            \* the names that source joins with "+"
            Names(source) ==
                LET cuts == {p \in DOMAIN source : source[p] = "+"} \cup {0, Len(source) + 1}
                IN  {SubSeq(source, p + 1, q - 1) :
                        <<p, q>> \in {pq \in cuts \X cuts :
                                        /\ pq[1] < pq[2]
                                        /\ \A r \in cuts : ~(pq[1] < r /\ r < pq[2])}}
            Returned(i, key) ==
                \E k \in DOMAIN response[i].results : KeyOf(response[i].results[k]) = key
        IN  /\ \A a \in DOMAIN returned :
                  /\ \E i \in Engine :
                        /\ result.engines[i].status = "success"
                        /\ ~TruthyText(response[i].error)
                        /\ \E k \in DOMAIN response[i].results :
                              response[i].results[k].url = returned[a].url
                  /\ \A name \in Names(returned[a].source) :
                        \E i \in Engine :
                            engines[i] = name /\ Returned(i, KeyOf(returned[a]))
            /\ result.totalResults <= counted[Len(result.engines)]

\* A result merged from the raw results of two providers, with the url of the
\* first, which is not its normalized URL.
C30_Witness ==
    /\ phase = "aggregated"
    /\ Len(engines) = 2
    /\ Len(result.results) = 1
    /\ result.results[1].source = engines[1] \o <<"+">> \o engines[2]
    /\ result.results[1].url = response[1].results[1].url
    /\ result.results[1].url # KeyOf(result.results[1])
    /\ result.totalResults < Len(Collected)
====
